---- MODULE Spec2Model ----
(***************************************************************************)
(* A model of the Proxmox salt-cloud driver                                *)
(* (src/src/saltext/proxmox/clouds/proxmox.py).                            *)
(*                                                                         *)
(* The driver is single threaded: one operation runs to completion on a    *)
(* call stack (create calls clone, start and show_instance).  Between two  *)
(* remote requests the hypervisor's own state (the VM inventory, the       *)
(* asynchronous tasks) may change; the Env* actions model that.            *)
(*                                                                         *)
(* Python values: None in a scalar position is the string "None" (which    *)
(* is also what an f-string prints for it); a dict is a function from its  *)
(* keys; None in a dict position is PyNone.                                *)
(***************************************************************************)
EXTENDS Integers, Sequences, FiniteSets, TLC

VARIABLES
    inventory,  \* remote: the answer to GET cluster/resources, a list of VM records
    nodes,      \* remote: the answer to GET nodes, as last given
    storage,    \* remote: the storage content of each node asked, as last given
    tasks,      \* remote: the asynchronous tasks behind the UPIDs handed out, by UPID
    op,         \* the top-level call being served ([fn |-> "none"] when idle)
    pc,         \* the position of the driver in that call
    log,        \* what the call has done so far: requests, events, bootstrap, in order
    exc,        \* the exception the call ended with ("None" if it did not raise)
    ret,        \* <<v>> once the current function returned v, <<>> before
    vm,         \* the local variable vm of _wait_for_vm_status / _wait_for_task's upid
    now,        \* time.time(), in polling intervals
    start_time  \* the local variable start_time of the waiting loop

vars == <<inventory, nodes, storage, tasks, op, pc, log, exc, ret, vm, now, start_time>>

(***************************************************************************)
(* Bounds of the model.                                                    *)
(***************************************************************************)
MaxVMs == 2         \* the longest inventory listing
MaxTimeout == 2     \* the longest timeout a wait is called with, in intervals
MaxNodes == 2       \* the longest node listing
MaxItems == 1       \* the longest storage content listing

(***************************************************************************)
(* Python values.                                                          *)
(***************************************************************************)
NULL == "None"
PyNone == [isNone |-> "None"]
EmptyDict == <<>>
IsDict(x) == x # PyNone
\* bool(x) of an Optional[dict]
Truthy(x) == IsDict(x) /\ DOMAIN x # {}
\* x.get(k)
Get(x, k) == IF k \in DOMAIN x THEN x[k] ELSE NULL

(***************************************************************************)
(* The remote inventory.  A VM record keeps its vmid, node and type for    *)
(* its whole life; two VMs of the catalogue share the name "a".            *)
(***************************************************************************)
VmIds == {"100", "200", "300"}
Names == {"a", "b"}

VMRecord(vmid) ==
    CASE vmid = "100" ->
           [vmid |-> "100", name |-> "a", node |-> "n1", type |-> "lxc", status |-> "running"]
      [] vmid = "200" ->
           [vmid |-> "200", name |-> "a", node |-> "n2", type |-> "qemu", status |-> "stopped"]
      [] vmid = "300" ->
           [vmid |-> "300", name |-> "b", node |-> "n1", type |-> "qemu", status |-> "stopped"]

AllVMs == {VMRecord(v) : v \in VmIds}

\* The listings of at most MaxVMs records, no vmid twice.
Inventories ==
    {s \in UNION {[1..n -> AllVMs] : n \in 0..MaxVMs} :
        \A i, j \in DOMAIN s : i # j => s[i].vmid # s[j].vmid}

(***************************************************************************)
(* What a call leaves behind, in order.                                    *)
(***************************************************************************)
Request(method, path, data) ==
    [kind |-> "request", method |-> method, path |-> path, data |-> data]
Event(tag, name) == [kind |-> "event", tag |-> tag, name |-> name]
Bootstrap(name) == [kind |-> "bootstrap", name |-> name]
\* The payload a status query was answered with.
Response(payload) == [kind |-> "response", payload |-> payload]

IsRequest(e) == e.kind = "request"
IsEvent(e, tag) == e.kind = "event" /\ e.tag = tag
IsResponse(e) == e.kind = "response"

\* The UPID the remote answers a POST with: it names the node and the work.
Upid(node, work, vmid) == <<"UPID", node, work, vmid>>

\* The exit status texts a task ends with (character lists).
ExitOK == <<"O", "K">>
ExitFailed == <<"j", "o", "b", " ", "f", "a", "i", "l", "e", "d">>
ExitFail == <<"f", "a", "i", "l">>
ExitStatuses == {ExitOK, ExitFailed, ExitFail}

(***************************************************************************)
(* _query.  The request is sent; the remote answers, answers with an HTTP  *)
(* error status, or gives no response at all.  In the last case the        *)
(* except clause reads response.text of response = None.                   *)
(***************************************************************************)
QueryOutcomes == {"ok", "http_error", "no_response"}

_query_exc(outcome) ==
    CASE outcome = "ok" -> NULL
      [] outcome = "http_error" -> "SaltCloudSystemExit"
      [] outcome = "no_response" -> "AttributeError"

\* A scan that keeps the last match instead of leaving at the first.
RECURSIVE ScanLast(_, _, _, _)
ScanLast(vms, key, value, i) ==
    IF i > Len(vms) THEN <<>>
    ELSE LET later == ScanLast(vms, key, value, i + 1)
         IN  IF later # <<>> THEN later
             ELSE IF vms[i][key] = value THEN <<vms[i]>>
             ELSE <<>>

\* The linear scan "for vm in vms: if vm[key] == value: return vm", from index i:
\* <<vm>> for the first match, <<>> when the loop runs out (SaltCloudNotFound).
RECURSIVE Scan(_, _, _, _)
Scan(vms, key, value, i) ==
    IF i > Len(vms) THEN <<>>
    ELSE IF vms[i][key] = value THEN <<vms[i]>>
    ELSE Scan(vms, key, value, i + 1)

_get_vm_by_name(vms, name) == Scan(vms, "name", name, 1)

\* A lookup that does not compare: the head of the listing.
_get_vm_by_id_head(vms, vmid) == IF vms = <<>> THEN <<>> ELSE <<vms[1]>>

_get_vm_by_id(vms, vmid) == Scan(vms, "vmid", vmid, 1)

ResourcesRequest == Request("GET", <<"cluster", "resources">>, [type |-> "vm"])

(***************************************************************************)
(* The inputs of the calls.                                                *)
(***************************************************************************)
Calls == {"function", "action", NULL}

\* kwargs of the actions: none, or parameters passed through to the API.
ActionKwargs == {PyNone, [force |-> "1"]}

\* kwargs of clone, and the clone sub-configuration of a profile.
CloneKwargs ==
    { PyNone,
      EmptyDict,
      [newid |-> "456"],
      [vmid |-> "200", newid |-> "456", node |-> "n1"] }

\* The create sub-configuration of a profile (PyNone: the profile has none).
CreateOptions == {PyNone, [vmid |-> "300", node |-> "n1"]}

\* A profile, as salt-cloud hands it to create.  technology, clone and
\* create may be missing (NULL, PyNone).
Profiles ==
    [name : Names, technology : {NULL, "lxc"},
     clone : CloneKwargs, create : CreateOptions]

NoOp == [fn |-> "none"]

(***************************************************************************)
(* Ending a function: raise e, or return v.                                *)
(***************************************************************************)
Raise(e, newlog) ==
    /\ pc' = "done"
    /\ exc' = e
    /\ ret' = <<>>
    /\ log' = newlog

Return(v, newlog) ==
    /\ pc' = "done"
    /\ exc' = NULL
    /\ ret' = <<v>>
    /\ log' = newlog

\* A step that goes on at position p.
Goto(p, newlog) ==
    /\ pc' = p
    /\ log' = newlog
    /\ UNCHANGED <<exc, ret>>

\* The remote starts the task behind the UPID it answers a POST with.
StartTask(upid) ==
    tasks' = [u \in DOMAIN tasks \cup {upid} |->
                 IF u = upid THEN [status |-> "running", exitstatus |-> NULL]
                 ELSE tasks[u]]

Init ==
    /\ inventory \in Inventories
    /\ nodes = <<>>
    /\ storage = <<>>
    /\ tasks = <<>>
    /\ op = NoOp
    /\ pc = "idle"
    /\ log = <<>>
    /\ exc = NULL
    /\ ret = <<>>
    /\ vm = <<>>
    /\ now = 0
    /\ start_time = 0

(***************************************************************************)
(* create(vm_)                                                             *)
(***************************************************************************)
\* A slip in line 189: the test the wrong way round.
should_clone_inverted(vm_) == ~Truthy(vm_.clone)

\* clone_options = vm_.get("clone"); should_clone = True if clone_options else False
should_clone(vm_) == Truthy(vm_.clone)

\* A slip in lines 175-184: the "creating" event is left out.
create_without_event(vm_) ==
    /\ pc = "idle"
    /\ op' = [fn |-> "create", vm_ |-> vm_]
    /\ Goto(IF should_clone(vm_) THEN "clone" ELSE "create_post", <<>>)
    /\ UNCHANGED <<inventory, nodes, storage, tasks, vm, now, start_time>>

\* Lines 175-191: fire the "creating" event, read the profile, branch.
create(vm_) ==
    /\ pc = "idle"
    /\ op' = [fn |-> "create", vm_ |-> vm_]
    /\ Goto(IF should_clone(vm_) THEN "clone" ELSE "create_post",
            <<Event("creating", vm_.name)>>)
    /\ UNCHANGED <<inventory, nodes, storage, tasks, vm, now, start_time>>

\* The path of the creation call of line 194.
create_path(vm_) == <<"nodes", vm_.create.node, vm_.technology>>

\* Line 194: _query("POST", f"nodes/{vm_['create']['node']}/{type}", vm_["create"]).
create_post ==
    /\ pc = "create_post"
    /\ IF ~IsDict(op.vm_.create)
       THEN /\ Raise("KeyError", log)
            /\ UNCHANGED tasks
       ELSE \E outcome \in QueryOutcomes :
              LET sent == Append(log, Request("POST", create_path(op.vm_), op.vm_.create))
              IN  IF outcome = "ok"
                  THEN /\ Goto("set_status", sent)
                       /\ StartTask(Upid(op.vm_.create.node, "create", op.vm_.create.vmid))
                  ELSE /\ Raise(_query_exc(outcome), sent)
                       /\ UNCHANGED tasks
    /\ UNCHANGED <<inventory, nodes, storage, op, vm, now, start_time>>

(***************************************************************************)
(* clone(call, kwargs)                                                     *)
(***************************************************************************)
\* Lines 235-236.
clone(call, kwargs) ==
    /\ pc = "idle"
    /\ op' = [fn |-> "clone", call |-> call, kwargs |-> kwargs]
    /\ IF call # "function"
       THEN Raise("SaltCloudSystemExit", <<>>)
       ELSE Goto("clone", <<>>)
    /\ UNCHANGED <<inventory, nodes, storage, tasks, vm, now, start_time>>

\* The kwargs clone runs with: its own, or the clone options create passes.
clone_args == IF op.fn = "create" THEN op.vm_.clone ELSE op.kwargs

\* The path of the clone call of line 245.
clone_path(source, vmid) == <<"nodes", source.node, source.type, vmid, "clone">>

\* Lines 238-245: default kwargs, look the source VM up by vmid, POST the
\* clone.  Returning to create goes on with start (line 196).
clone_body ==
    /\ pc = "clone"
    /\ LET kwargs == IF IsDict(clone_args) THEN clone_args ELSE EmptyDict
           vmid == Get(kwargs, "vmid")
           asked == Append(log, ResourcesRequest)
       IN  \E o1 \in QueryOutcomes :
             IF o1 # "ok"
             THEN Raise(_query_exc(o1), asked) /\ UNCHANGED tasks
             ELSE LET found == _get_vm_by_id(inventory, vmid)
                  IN  IF found = <<>>
                      THEN Raise("SaltCloudNotFound", asked) /\ UNCHANGED tasks
                      ELSE \E o2 \in QueryOutcomes :
                             LET sent == Append(asked,
                                     Request("POST", clone_path(found[1], vmid), kwargs))
                             IN  IF o2 # "ok"
                                 THEN Raise(_query_exc(o2), sent) /\ UNCHANGED tasks
                                 ELSE /\ StartTask(Upid(found[1].node, "clone", vmid))
                                      /\ IF op.fn = "create"
                                         THEN Goto("set_status", sent)
                                         ELSE Return(NULL, sent)
    /\ UNCHANGED <<inventory, nodes, storage, op, vm, now, start_time>>

(***************************************************************************)
(* start, stop, shutdown                                                   *)
(***************************************************************************)
PowerFns == {"start", "stop", "shutdown"}

\* A slip in lines 559 and 593: every action waits for "running".
expected_status_running(fn) == "running"

\* The status each action waits for (lines 525, 559, 593).
expected_status(fn) == IF fn = "start" THEN "running" ELSE "stopped"

\* Lines 520-521, 554-555, 588-589.
power(fn, call, name, kwargs) ==
    /\ pc = "idle"
    /\ op' = [fn |-> fn, call |-> call, name |-> name, kwargs |-> kwargs]
    /\ IF call # "action"
       THEN Raise("SaltCloudSystemExit", <<>>)
       ELSE Goto("set_status", <<>>)
    /\ UNCHANGED <<inventory, nodes, storage, tasks, vm, now, start_time>>

start(call, name, kwargs) == power("start", call, name, kwargs)
stop(call, name, kwargs) == power("stop", call, name, kwargs)
shutdown(call, name, kwargs) == power("shutdown", call, name, kwargs)

\* The action under way and its arguments: create calls
\* start(call="action", name=vm_["name"]) (line 196).
power_fn == IF op.fn = "create" THEN "start" ELSE op.fn
power_name == IF op.fn = "create" THEN op.vm_.name ELSE op.name
power_kwargs == IF op.fn = "create" THEN PyNone ELSE op.kwargs

\* A slip in line 715: the transition is always "stop".
status_path_stop(v, status) == <<"nodes", v.node, v.type, v.vmid, "status", "stop">>

\* The path of the status call of line 715.
status_path(v, status) == <<"nodes", v.node, v.type, v.vmid, "status", status>>

\* _set_vm_status(name, status, kwargs), lines 713-715: look the VM up by
\* name, POST the transition.
_set_vm_status ==
    /\ pc = "set_status"
    /\ LET asked == Append(log, ResourcesRequest)
       IN  \E o1 \in QueryOutcomes :
             IF o1 # "ok"
             THEN Raise(_query_exc(o1), asked) /\ UNCHANGED tasks
             ELSE LET found == _get_vm_by_name(inventory, power_name)
                  IN  IF found = <<>>
                      THEN Raise("SaltCloudNotFound", asked) /\ UNCHANGED tasks
                      ELSE \E o2 \in QueryOutcomes :
                             LET sent == Append(asked,
                                     Request("POST", status_path(found[1], power_fn),
                                             power_kwargs))
                             IN  IF o2 # "ok"
                                 THEN Raise(_query_exc(o2), sent) /\ UNCHANGED tasks
                                 ELSE /\ StartTask(Upid(found[1].node, power_fn, found[1].vmid))
                                      /\ Goto("wait_lookup", sent)
    /\ UNCHANGED <<inventory, nodes, storage, op, vm, now, start_time>>

\* _wait_for_vm_status(name, status), lines 734-736: a second lookup by
\* name, then the clock is read.
_wait_for_vm_status_lookup ==
    /\ pc = "wait_lookup"
    /\ LET asked == Append(log, ResourcesRequest)
       IN  \E o1 \in QueryOutcomes :
             IF o1 # "ok"
             THEN Raise(_query_exc(o1), asked) /\ UNCHANGED <<vm, start_time>>
             ELSE LET found == _get_vm_by_name(inventory, power_name)
                  IN  IF found = <<>>
                      THEN Raise("SaltCloudNotFound", asked) /\ UNCHANGED <<vm, start_time>>
                      ELSE /\ vm' = found
                           /\ start_time' = now
                           /\ Goto("wait_poll", asked)
    /\ UNCHANGED <<inventory, nodes, storage, tasks, op, now>>

\* What start, stop and shutdown return (lines 527-531, 561-565, 595-599).
power_result(fn) == [success |-> TRUE, state |-> expected_status(fn), action |-> fn]

VmStatuses == {"running", "stopped"}

\* The default timeout of _wait_for_vm_status (300 s), in polling intervals
\* (0.2 s), scaled down.
Timeout == 2

\* A slip in line 737: the loop runs one interval past the timeout.
deadline_passed_late(t, t0, limit) == ~(t < t0 + limit + 1)

\* The negation of the loop condition of line 737.
deadline_passed(t, t0, limit) == ~(t < t0 + limit)

\* One turn of the loop of lines 737-745: the condition, a status query,
\* the comparison, the sleep.  The remote reports any status.
_wait_for_vm_status_poll ==
    /\ pc = "wait_poll"
    /\ IF deadline_passed(now, start_time, Timeout)
       THEN Raise("SaltCloudExecutionTimeout", log) /\ UNCHANGED now
       ELSE LET sent == Append(log,
                    Request("GET", <<"nodes", vm[1].node, vm[1].type, vm[1].vmid,
                                     "status", "current">>, PyNone))
            IN  \E o \in QueryOutcomes :
                  IF o # "ok"
                  THEN Raise(_query_exc(o), sent) /\ UNCHANGED now
                  ELSE \E reported \in VmStatuses :
                         LET response == [status |-> reported]
                             answered == Append(sent, Response(response))
                         IN  IF response.status = expected_status(power_fn)
                             THEN /\ IF op.fn = "create"
                                     THEN Goto("bootstrap", answered)
                                     ELSE Return(power_result(power_fn), answered)
                                  /\ UNCHANGED now
                             ELSE /\ now' = now + 1
                                  /\ Goto("wait_poll", answered)
    /\ UNCHANGED <<inventory, nodes, storage, tasks, op, vm, start_time>>

(***************************************************************************)
(* Strings.  A Python str is the list of its characters.                   *)
(***************************************************************************)
\* s.split(sep) from index i, cur the piece under way, acc the pieces done.
RECURSIVE SplitFrom(_, _, _, _, _)
SplitFrom(s, sep, i, cur, acc) ==
    IF i > Len(s) THEN Append(acc, cur)
    ELSE IF s[i] = sep THEN SplitFrom(s, sep, i + 1, <<>>, Append(acc, cur))
    ELSE SplitFrom(s, sep, i + 1, Append(cur, s[i]), acc)

Split(s, sep) == SplitFrom(s, sep, 1, <<>>, <<>>)

\* s.strip()
RECURSIVE LStrip(_)
LStrip(s) == IF s # <<>> /\ Head(s) = " " THEN LStrip(Tail(s)) ELSE s
RECURSIVE RStrip(_)
RStrip(s) ==
    IF s # <<>> /\ s[Len(s)] = " " THEN RStrip(SubSeq(s, 1, Len(s) - 1)) ELSE s
Strip(s) == RStrip(LStrip(s))

\* s.startswith(prefix)
StartsWith(s, prefix) ==
    Len(s) >= Len(prefix) /\ SubSeq(s, 1, Len(prefix)) = prefix

DigitChars == {"0", "1", "2", "3", "4", "5", "6", "7", "8", "9"}
DigitValue(c) ==
    CASE c = "0" -> 0 [] c = "1" -> 1 [] c = "2" -> 2 [] c = "3" -> 3 [] c = "4" -> 4
      [] c = "5" -> 5 [] c = "6" -> 6 [] c = "7" -> 7 [] c = "8" -> 8 [] c = "9" -> 9
DigitChar(n) ==
    CASE n = 0 -> "0" [] n = 1 -> "1" [] n = 2 -> "2" [] n = 3 -> "3" [] n = 4 -> "4"
      [] n = 5 -> "5" [] n = 6 -> "6" [] n = 7 -> "7" [] n = 8 -> "8" [] n = 9 -> "9"

\* s.isascii() and s.isdigit()
IsDigits(s) == s # <<>> /\ \A i \in DOMAIN s : s[i] \in DigitChars

\* int(s) of a digit string
RECURSIVE ToInt(_)
ToInt(s) ==
    IF s = <<>> THEN 0 ELSE 10 * ToInt(SubSeq(s, 1, Len(s) - 1)) + DigitValue(s[Len(s)])

\* str(n) of a natural number
RECURSIVE ToStr(_)
ToStr(n) == IF n < 10 THEN <<DigitChar(n)>> ELSE Append(ToStr(n \div 10), DigitChar(n % 10))

(***************************************************************************)
(* ipaddress.ip_interface of the standard library, for IPv4: the address,  *)
(* "/", and a prefix length or a dotted net or host mask.  <<>> stands     *)
(* for ValueError.  (The texts of this model hold no IPv6 address.)        *)
(***************************************************************************)
\* _parse_octet: <<n>> or <<>>
parse_octet(o) ==
    IF ~IsDigits(o) \/ Len(o) > 3 THEN <<>>
    ELSE IF o # <<"0">> /\ o[1] = "0" THEN <<>>
    ELSE IF ToInt(o) > 255 THEN <<>>
    ELSE <<ToInt(o)>>

\* _ip_int_from_string, as the four octets: <<a, b, c, d>> or <<>>
parse_ipv4(a) ==
    LET octets == Split(a, ".")
    IN  IF Len(octets) # 4 THEN <<>>
        ELSE IF \E i \in 1..4 : parse_octet(octets[i]) = <<>> THEN <<>>
        ELSE [i \in 1..4 |-> parse_octet(octets[i])[1]]

\* The values of a mask octet that are a run of ones then zeroes.
OnesThenZeroes == {0, 128, 192, 224, 240, 248, 252, 254, 255}

\* _prefix_from_ip_int on the octets m: ones, then zeroes.
is_netmask(m) ==
    /\ \A i \in 1..4 : m[i] \in OnesThenZeroes
    /\ \A i \in 1..3 : m[i] # 255 => m[i + 1] = 0

\* _make_netmask on the text after "/"
valid_netmask(m) ==
    IF IsDigits(m) THEN ToInt(m) <= 32
    ELSE LET q == parse_ipv4(m)
         IN  /\ q # <<>>
             /\ \/ is_netmask(q)
                \/ is_netmask([i \in 1..4 |-> 255 - q[i]])

\* str(None)
NoneText == <<"N", "o", "n", "e">>

\* ip_interface(text).ip as its octets: <<a, b, c, d>> or <<>> (ValueError).
\* The library reads str(address), so None is read as the text "None".
ip_interface(text) ==
    LET parts == Split(text, "/")
    IN  IF Len(parts) > 2 THEN <<>>
        ELSE IF Len(parts) = 2 /\ ~valid_netmask(parts[2]) THEN <<>>
        ELSE parse_ipv4(parts[1])

\* IPv4Address.is_private: the networks of the IANA special registry.
is_private(ip) ==
    \/ ip[1] \in {0, 10, 127}
    \/ ip[1] = 169 /\ ip[2] = 254
    \/ ip[1] = 172 /\ ip[2] \in 16..31
    \/ ip[1] = 192 /\ ip[2] = 0 /\ ip[3] = 0 /\ ip[4] \in (0..7) \cup {170, 171}
    \/ ip[1] = 192 /\ ip[2] = 0 /\ ip[3] = 2
    \/ ip[1] = 192 /\ ip[2] = 168
    \/ ip[1] = 198 /\ ip[2] \in {18, 19}
    \/ ip[1] = 198 /\ ip[2] = 51 /\ ip[3] = 100
    \/ ip[1] = 203 /\ ip[2] = 0 /\ ip[3] = 113
    \/ ip[1] >= 240

\* str(ip)
ip_str(ip) ==
    ToStr(ip[1]) \o <<".">> \o ToStr(ip[2]) \o <<".">> \o ToStr(ip[3]) \o <<".">> \o ToStr(ip[4])

(***************************************************************************)
(* _stringlist_to_dictionary and _parse_ips                                *)
(***************************************************************************)
\* dict(pairs) from index i: <<d>>, or <<>> for the ValueError of an element
\* that is not a pair.  A later key replaces an earlier one.
RECURSIVE dict_of(_, _, _)
dict_of(pairs, i, acc) ==
    IF i > Len(pairs) THEN <<acc>>
    ELSE IF Len(pairs[i]) # 2 THEN <<>>
    ELSE dict_of(pairs, i + 1, (pairs[i][1] :> pairs[i][2]) @@ acc)

\* [f(x) for x in s if x], for f = strip then split("=")
RECURSIVE items_of(_, _)
items_of(pieces, i) ==
    IF i > Len(pieces) THEN <<>>
    ELSE IF pieces[i] = <<>> THEN items_of(pieces, i + 1)
    ELSE <<Split(Strip(pieces[i]), "=")>> \o items_of(pieces, i + 1)

\* Line 756: <<dict>> or <<>> (ValueError).
_stringlist_to_dictionary(input_string) ==
    dict_of(items_of(Split(input_string, ","), 1), 1, <<>>)

IpKey == <<"i", "p">>
NetPrefix == <<"n", "e", "t">>
IpconfigPrefix == <<"i", "p", "c", "o", "n", "f", "i", "g">>

\* A config is the list of its <<key, value>> pairs, in the order of the
\* response.  Lines 766-770: the values of the keys with the prefix.
RECURSIVE values_with_prefix(_, _, _)
values_with_prefix(vm_config, prefix, i) ==
    IF i > Len(vm_config) THEN <<>>
    ELSE IF StartsWith(vm_config[i][1], prefix)
         THEN <<vm_config[i][2]>> \o values_with_prefix(vm_config, prefix, i + 1)
         ELSE values_with_prefix(vm_config, prefix, i + 1)

\* A slip in lines 767-770: the net* keys are read whatever the type.
ip_configs_of_net_only(vm_config, vm_type) == values_with_prefix(vm_config, NetPrefix, 1)

\* Lines 767-770.
ip_configs_of(vm_config, vm_type) ==
    IF vm_type = "lxc" THEN values_with_prefix(vm_config, NetPrefix, 1)
    ELSE values_with_prefix(vm_config, IpconfigPrefix, 1)

\* The loop of lines 772-782 from index i.  bound: ip_with_netmask has been
\* assigned.  The except clause reads ip_with_netmask; when the first
\* _stringlist_to_dictionary of the call raises, the name is unbound and
\* the handler itself raises UnboundLocalError.
RECURSIVE parse_ips_loop(_, _, _, _, _)
parse_ips_loop(ip_configs, i, bound, private_ips, public_ips) ==
    IF i > Len(ip_configs)
    THEN [private_ips |-> private_ips, public_ips |-> public_ips, exc |-> NULL]
    ELSE LET d == _stringlist_to_dictionary(ip_configs[i])
         IN  IF d = <<>>
             THEN IF bound
                  THEN parse_ips_loop(ip_configs, i + 1, bound, private_ips, public_ips)
                  ELSE [private_ips |-> private_ips, public_ips |-> public_ips,
                        exc |-> "UnboundLocalError"]
             ELSE LET ip_with_netmask ==
                          IF IpKey \in DOMAIN d[1] THEN d[1][IpKey] ELSE NoneText
                      ip == ip_interface(ip_with_netmask)
                  IN  IF ip = <<>>
                      THEN parse_ips_loop(ip_configs, i + 1, TRUE, private_ips, public_ips)
                      ELSE IF is_private(ip)
                      THEN parse_ips_loop(ip_configs, i + 1, TRUE,
                                          Append(private_ips, ip_str(ip)), public_ips)
                      ELSE parse_ips_loop(ip_configs, i + 1, TRUE,
                                          private_ips, Append(public_ips, ip_str(ip)))

\* Lines 759-784.
_parse_ips(vm_config, vm_type) ==
    parse_ips_loop(ip_configs_of(vm_config, vm_type), 1, FALSE, <<>>, <<>>)

(***************************************************************************)
(* list_nodes_full and show_instance                                       *)
(***************************************************************************)
\* The live configuration the remote holds for a VM: net* keys for a
\* container, ipconfig* keys for a full VM.
VMConfig(vmid) ==
    CASE vmid = "100" ->
           << <<NetPrefix \o <<"0">>,
                <<"n","a","m","e","=","e","t","h","0",",","i","p","=","1","0",".","0",".","0",".","1","/","8">> >> >>
      [] vmid = "200" ->
           << <<IpconfigPrefix \o <<"0">>,
                <<"i","p","=","8",".","8",".","8",".","8","/","2","4">> >>,
              <<IpconfigPrefix \o <<"1">>,
                <<"i","p","=","1","9","2",".","1","6","8",".","5","0","0",".","2">> >> >>
      [] vmid = "300" ->
           << <<NetPrefix \o <<"0">>, <<"v","i","r","t","i","o">> >>,
              <<IpconfigPrefix \o <<"0">>,
                <<"g","w","=","1","0",".","0",".","0",".","1">> >> >>

config_path(v) == <<"nodes", v.node, v.type, v.vmid, "config">>

\* A slip in lines 460-461: the configuration is not stored.
without_config(v, config) == v

\* ret[name] = vm; ret[name]["config"] = config (lines 460-461).
with_config(v, config) ==
    [k \in DOMAIN v \cup {"config"} |-> IF k = "config" THEN config ELSE v[k]]

\* The loop of lines 456-461 from index i: the dict built, keyed by name; a
\* later VM of the same name replaces the earlier one.
RECURSIVE list_nodes_full_loop(_, _, _)
list_nodes_full_loop(vms, i, acc) ==
    IF i > Len(vms) THEN acc
    ELSE list_nodes_full_loop(vms, i + 1,
             (vms[i].name :> with_config(vms[i], VMConfig(vms[i].vmid))) @@ acc)

list_nodes_full_result(vms) == list_nodes_full_loop(vms, 1, <<>>)

\* The requests list_nodes and list_nodes_full make for the first n VMs of
\* the listing: the listing itself, then each VM's config.
RECURSIVE config_requests(_, _)
config_requests(vms, n) ==
    IF n = 0 THEN <<ResourcesRequest>>
    ELSE Append(config_requests(vms, n - 1), Request("GET", config_path(vms[n]), PyNone))

QueryFailures == {"http_error", "no_response"}

\* Lines 490-491.
show_instance(call, name) ==
    /\ pc = "idle"
    /\ op' = [fn |-> "show_instance", call |-> call, name |-> name]
    /\ IF call # "action"
       THEN Raise("SaltCloudSystemExit", <<>>)
       ELSE Goto("show_instance", <<>>)
    /\ UNCHANGED <<inventory, nodes, storage, tasks, vm, now, start_time>>

show_instance_name == IF op.fn = "create" THEN op.vm_.name ELSE op.name

\* Lines 493-497 with list_nodes_full (lines 453-463) inside: either one of
\* the 1 + len(vms) queries fails, or the dict is built and searched.
\* Back in create, the record found is merged into what bootstrap returned
\* (here: nothing), the "created" event is fired and the record returned
\* (lines 202-215).
show_instance_body ==
    /\ pc = "show_instance"
    /\ \/ \E n \in 0..Len(inventory), o \in QueryFailures :
            Raise(_query_exc(o), log \o config_requests(inventory, n))
       \/ LET listed == list_nodes_full_result(inventory)
              asked == log \o config_requests(inventory, Len(inventory))
          IN  IF show_instance_name \in DOMAIN listed
              THEN IF op.fn = "create"
                   THEN Return(listed[show_instance_name],
                               Append(asked, Event("created", op.vm_.name)))
                   ELSE Return(listed[show_instance_name], asked)
              ELSE Raise("SaltCloudNotFound", asked)
    /\ UNCHANGED <<inventory, nodes, storage, tasks, op, vm, now, start_time>>

(***************************************************************************)
(* create, after start returned                                            *)
(***************************************************************************)
\* Lines 199-200: the bootstrap collaborator deploys salt on the VM; it
\* returns a dict or raises.
create_bootstrap ==
    /\ pc = "bootstrap"
    /\ LET called == Append(log, Bootstrap(op.vm_.name))
       IN  \/ Goto("show_instance", called)
           \/ Raise("SaltCloudSystemExit", called)
    /\ UNCHANGED <<inventory, nodes, storage, tasks, op, vm, now, start_time>>

(***************************************************************************)
(* reconfigure and destroy                                                 *)
(***************************************************************************)
\* Lines 279-282.
reconfigure(call, name, kwargs) ==
    /\ pc = "idle"
    /\ op' = [fn |-> "reconfigure", call |-> call, name |-> name, kwargs |-> kwargs]
    /\ IF call = "function"
       THEN Raise("SaltCloudSystemExit", <<>>)
       ELSE Goto("reconfigure", <<>>)
    /\ UNCHANGED <<inventory, nodes, storage, tasks, vm, now, start_time>>

\* Lines 284-291.
reconfigure_body ==
    /\ pc = "reconfigure"
    /\ LET asked == Append(log, ResourcesRequest)
       IN  \E o1 \in QueryOutcomes :
             IF o1 # "ok"
             THEN Raise(_query_exc(o1), asked)
             ELSE LET found == _get_vm_by_name(inventory, op.name)
                  IN  IF found = <<>>
                      THEN Raise("SaltCloudNotFound", asked)
                      ELSE \E o2 \in QueryOutcomes :
                             LET sent == Append(asked,
                                     Request("PUT", config_path(found[1]), op.kwargs))
                             IN  IF o2 # "ok"
                                 THEN Raise(_query_exc(o2), sent)
                                 ELSE Return([success |-> TRUE, action |-> "reconfigure"], sent)
    /\ UNCHANGED <<inventory, nodes, storage, tasks, op, vm, now, start_time>>

\* A slip in lines 312-319: the "destroying" event is left out.
destroy_without_event(call, name, kwargs) ==
    /\ pc = "idle"
    /\ op' = [fn |-> "destroy", call |-> call, name |-> name, kwargs |-> kwargs]
    /\ IF call = "function"
       THEN Raise("SaltCloudSystemExit", <<>>)
       ELSE Goto("destroy", <<>>)
    /\ UNCHANGED <<inventory, nodes, storage, tasks, vm, now, start_time>>

\* A slip in lines 307-319: the event is fired before the calling convention
\* is looked at.
destroy_event_first(call, name, kwargs) ==
    /\ pc = "idle"
    /\ op' = [fn |-> "destroy", call |-> call, name |-> name, kwargs |-> kwargs]
    /\ IF call = "function"
       THEN Raise("SaltCloudSystemExit", <<Event("destroying", name)>>)
       ELSE Goto("destroy", <<Event("destroying", name)>>)
    /\ UNCHANGED <<inventory, nodes, storage, tasks, vm, now, start_time>>

\* Lines 307-319: the calling convention, then the "destroying" event.
destroy(call, name, kwargs) ==
    /\ pc = "idle"
    /\ op' = [fn |-> "destroy", call |-> call, name |-> name, kwargs |-> kwargs]
    /\ IF call = "function"
       THEN Raise("SaltCloudSystemExit", <<>>)
       ELSE Goto("destroy", <<Event("destroying", name)>>)
    /\ UNCHANGED <<inventory, nodes, storage, tasks, vm, now, start_time>>

destroy_path(v) == <<"nodes", v.node, v.type, v.vmid>>

\* Lines 321-332: lookup, DELETE, the "destroyed" event.
destroy_body ==
    /\ pc = "destroy"
    /\ LET asked == Append(log, ResourcesRequest)
       IN  \E o1 \in QueryOutcomes :
             IF o1 # "ok"
             THEN Raise(_query_exc(o1), asked) /\ UNCHANGED tasks
             ELSE LET found == _get_vm_by_name(inventory, op.name)
                  IN  IF found = <<>>
                      THEN Raise("SaltCloudNotFound", asked) /\ UNCHANGED tasks
                      ELSE \E o2 \in QueryOutcomes :
                             LET sent == Append(asked,
                                     Request("DELETE", destroy_path(found[1]), op.kwargs))
                             IN  IF o2 # "ok"
                                 THEN Raise(_query_exc(o2), sent) /\ UNCHANGED tasks
                                 ELSE /\ StartTask(Upid(found[1].node, "destroy", found[1].vmid))
                                      /\ Return(NULL,
                                                Append(sent, Event("destroyed", op.name)))
    /\ UNCHANGED <<inventory, nodes, storage, op, vm, now, start_time>>

(***************************************************************************)
(* avail_locations and avail_images                                        *)
(***************************************************************************)
NodeNames == {"n1", "n2"}

\* A node of the listing; status NULL: the record has no status.
NodeRecords == [node : NodeNames, status : {"online", "offline", NULL}]

\* The node listings: at most MaxNodes records, no node twice.
NodeListings ==
    {s \in UNION {[1..n -> NodeRecords] : n \in 0..MaxNodes} :
        \A i, j \in DOMAIN s : i # j => s[i].node # s[j].node}

\* A slip in line 356: every node not reported offline is kept.
RECURSIVE avail_locations_loop_not_offline(_, _, _)
avail_locations_loop_not_offline(locations, i, acc) ==
    IF i > Len(locations) THEN acc
    ELSE IF locations[i].status # "offline"
         THEN avail_locations_loop_not_offline(locations, i + 1,
                                               (locations[i].node :> locations[i]) @@ acc)
         ELSE avail_locations_loop_not_offline(locations, i + 1, acc)

\* The loop of lines 353-359 from index i: the dict built, keyed by node.
RECURSIVE avail_locations_loop(_, _, _)
avail_locations_loop(locations, i, acc) ==
    IF i > Len(locations) THEN acc
    ELSE IF locations[i].status = "online"
         THEN avail_locations_loop(locations, i + 1,
                                   (locations[i].node :> locations[i]) @@ acc)
         ELSE avail_locations_loop(locations, i + 1, acc)

avail_locations_result(locations) == avail_locations_loop(locations, 1, <<>>)

\* The keys of that dict in iteration order: the online nodes as listed.
RECURSIVE avail_locations_keys(_, _)
avail_locations_keys(locations, i) ==
    IF i > Len(locations) THEN <<>>
    ELSE IF locations[i].status = "online"
         THEN <<locations[i].node>> \o avail_locations_keys(locations, i + 1)
         ELSE avail_locations_keys(locations, i + 1)

NodesRequest == Request("GET", <<"nodes">>, PyNone)

\* Lines 345-361.
avail_locations(call) ==
    /\ pc = "idle"
    /\ op' = [fn |-> "avail_locations", call |-> call]
    /\ IF call = "action"
       THEN Raise("SaltCloudSystemExit", <<>>) /\ UNCHANGED nodes
       ELSE \/ \E o \in QueryFailures :
                 Raise(_query_exc(o), <<NodesRequest>>) /\ UNCHANGED nodes
            \/ \E locations \in NodeListings :
                 /\ nodes' = locations
                 /\ Return(avail_locations_result(locations), <<NodesRequest>>)
    /\ UNCHANGED <<inventory, storage, tasks, vm, now, start_time>>

\* The items of a storage content listing.
ContentItems ==
    { [volid |-> "local:vztmpl/debian", content |-> "vztmpl"],
      [volid |-> "local:iso/debian", content |-> "iso"],
      [volid |-> "local:100/disk", content |-> "images"],
      [volid |-> "local:backup/dump", content |-> "backup"] }

ContentListings == UNION {[1..n -> ContentItems] : n \in 0..MaxItems}

StorageNames == {"local", "storage1"}

\* kwargs of avail_images.
ImagesKwargs == {PyNone, EmptyDict, [storage |-> "storage1"]}

\* A slip in line 395: the storage asked for is ignored.
content_path_local(location, name) == <<"nodes", location, "storage", "local", "content">>

\* The path of the content query of line 395.
content_path(location, name) == <<"nodes", location, "storage", name, "content">>

\* The inner loop of lines 395-396 from index i: the items, keyed by volid.
RECURSIVE content_loop(_, _, _)
content_loop(items, i, acc) ==
    IF i > Len(items) THEN acc
    ELSE content_loop(items, i + 1, (items[i].volid :> items[i]) @@ acc)

\* The requests of avail_images for the first n locations.
RECURSIVE content_requests(_, _, _)
content_requests(keys, name, n) ==
    IF n = 0 THEN <<NodesRequest>>
    ELSE Append(content_requests(keys, name, n - 1),
                Request("GET", content_path(keys[n], name), PyNone))

\* Lines 381-399, with avail_locations() (called with call=None) inside.
avail_images(call, kwargs) ==
    /\ pc = "idle"
    /\ op' = [fn |-> "avail_images", call |-> call, kwargs |-> kwargs]
    /\ IF call = "action"
       THEN Raise("SaltCloudSystemExit", <<>>) /\ UNCHANGED <<nodes, storage>>
       ELSE LET kw == IF IsDict(kwargs) THEN kwargs ELSE EmptyDict
                name == IF "storage" \in DOMAIN kw THEN kw["storage"] ELSE "local"
            IN  \/ \E o \in QueryFailures :
                     Raise(_query_exc(o), <<NodesRequest>>) /\ UNCHANGED <<nodes, storage>>
                \/ \E locations \in NodeListings :
                     LET keys == avail_locations_keys(locations, 1)
                     IN  /\ nodes' = locations
                         /\ \/ \E n \in 1..Len(keys), o \in QueryFailures :
                                 /\ Raise(_query_exc(o), content_requests(keys, name, n))
                                 /\ UNCHANGED storage
                            \/ \E answer \in [{keys[i] : i \in DOMAIN keys} -> ContentListings] :
                                 /\ storage' = answer
                                 /\ Return([l \in DOMAIN answer |->
                                               content_loop(answer[l], 1, <<>>)],
                                           content_requests(keys, name, Len(keys)))
    /\ UNCHANGED <<inventory, tasks, vm, now, start_time>>

(***************************************************************************)
(* list_nodes and list_nodes_full                                          *)
(***************************************************************************)
\* A slip in lines 422-432: the configuration is handed out with the entry.
list_nodes_entry_with_config(v, ips) ==
    [id |-> v.vmid, image |-> "", size |-> "", state |-> v.status,
     private_ips |-> ips.private_ips, public_ips |-> ips.public_ips,
     config |-> VMConfig(v.vmid)]

\* The entry of lines 422-432 for one VM; ips is what _parse_ips returned.
list_nodes_entry(v, ips) ==
    [id |-> v.vmid, image |-> "", size |-> "", state |-> v.status,
     private_ips |-> ips.private_ips, public_ips |-> ips.public_ips]

\* The loop of lines 419-432 from index i.
RECURSIVE list_nodes_loop(_, _, _)
list_nodes_loop(vms, i, acc) ==
    IF i > Len(vms) THEN acc
    ELSE list_nodes_loop(vms, i + 1,
             (vms[i].name :>
                 list_nodes_entry(vms[i], _parse_ips(VMConfig(vms[i].vmid), vms[i].type)))
             @@ acc)

\* The first VM of the listing whose config _parse_ips raises on, 0 if none.
RECURSIVE first_parse_error(_, _)
first_parse_error(vms, i) ==
    IF i > Len(vms) THEN 0
    ELSE IF _parse_ips(VMConfig(vms[i].vmid), vms[i].type).exc # NULL THEN i
    ELSE first_parse_error(vms, i + 1)

\* Lines 413-434: one of the queries fails, or _parse_ips raises, or the
\* dict is returned.
list_nodes(call) ==
    /\ pc = "idle"
    /\ op' = [fn |-> "list_nodes", call |-> call]
    /\ IF call = "action"
       THEN Raise("SaltCloudSystemExit", <<>>)
       ELSE LET bad == first_parse_error(inventory, 1)
                last == IF bad = 0 THEN Len(inventory) ELSE bad
            IN  \/ \E n \in 0..last, o \in QueryFailures :
                     Raise(_query_exc(o), config_requests(inventory, n))
                \/ IF bad # 0
                   THEN Raise(_parse_ips(VMConfig(inventory[bad].vmid), inventory[bad].type).exc,
                              config_requests(inventory, bad))
                   ELSE Return(list_nodes_loop(inventory, 1, <<>>),
                               config_requests(inventory, Len(inventory)))
    /\ UNCHANGED <<inventory, nodes, storage, tasks, vm, now, start_time>>

\* A slip in line 448: the convention of the actions, not of the functions.
list_nodes_full_as_action(call) ==
    /\ pc = "idle"
    /\ op' = [fn |-> "list_nodes_full", call |-> call]
    /\ IF call = "function"
       THEN Raise("SaltCloudSystemExit", <<>>)
       ELSE \/ \E n \in 0..Len(inventory), o \in QueryFailures :
                 Raise(_query_exc(o), config_requests(inventory, n))
            \/ Return(list_nodes_full_result(inventory),
                      config_requests(inventory, Len(inventory)))
    /\ UNCHANGED <<inventory, nodes, storage, tasks, vm, now, start_time>>

\* Lines 448-463.
list_nodes_full(call) ==
    /\ pc = "idle"
    /\ op' = [fn |-> "list_nodes_full", call |-> call]
    /\ IF call = "action"
       THEN Raise("SaltCloudSystemExit", <<>>)
       ELSE \/ \E n \in 0..Len(inventory), o \in QueryFailures :
                 Raise(_query_exc(o), config_requests(inventory, n))
            \/ Return(list_nodes_full_result(inventory),
                      config_requests(inventory, Len(inventory)))
    /\ UNCHANGED <<inventory, nodes, storage, tasks, vm, now, start_time>>

(***************************************************************************)
(* The remote changes under a running call: a VM appears in the listing    *)
(* (a creation or clone task got that far), a VM disappears, a task ends.  *)
(***************************************************************************)
Running == pc \notin {"idle", "done"}

EnvAddVM ==
    /\ Running
    /\ Len(inventory) < MaxVMs
    /\ \E r \in AllVMs :
         /\ \A i \in DOMAIN inventory : inventory[i].vmid # r.vmid
         /\ inventory' = Append(inventory, r)
    /\ UNCHANGED <<nodes, storage, tasks, op, pc, log, exc, ret, vm, now, start_time>>

EnvRemoveVM ==
    /\ Running
    /\ \E i \in DOMAIN inventory :
         inventory' = SubSeq(inventory, 1, i - 1) \o SubSeq(inventory, i + 1, Len(inventory))
    /\ UNCHANGED <<nodes, storage, tasks, op, pc, log, exc, ret, vm, now, start_time>>

EnvTaskEnds ==
    /\ Running
    /\ \E u \in DOMAIN tasks, e \in {ExitOK, ExitFailed} :
         /\ tasks[u].status = "running"
         /\ tasks' = [tasks EXCEPT ![u] = [status |-> "stopped", exitstatus |-> e]]
    /\ UNCHANGED <<inventory, nodes, storage, op, pc, log, exc, ret, vm, now, start_time>>

\* In the task specification a task ends with any exit status text.
EnvTaskEndsAny ==
    /\ Running
    /\ \E u \in DOMAIN tasks, e \in ExitStatuses :
         /\ tasks[u].status = "running"
         /\ tasks' = [tasks EXCEPT ![u] = [status |-> "stopped", exitstatus |-> e]]
    /\ UNCHANGED <<inventory, nodes, storage, op, pc, log, exc, ret, vm, now, start_time>>

\* The call is over; salt-cloud is run again.
NextCall ==
    /\ pc = "done"
    /\ pc' = "idle"
    /\ op' = NoOp
    /\ tasks' = <<>>
    /\ log' = <<>>
    /\ exc' = NULL
    /\ ret' = <<>>
    /\ vm' = <<>>
    /\ now' = 0
    /\ start_time' = 0
    /\ nodes' = <<>>
    /\ storage' = <<>>
    /\ UNCHANGED inventory

Next ==
    \/ \E vm_ \in Profiles : create(vm_)
    \/ create_post
    \/ \E call \in Calls, kwargs \in CloneKwargs : clone(call, kwargs)
    \/ clone_body
    \/ \E call \in Calls, name \in Names, kwargs \in ActionKwargs : start(call, name, kwargs)
    \/ \E call \in Calls, name \in Names, kwargs \in ActionKwargs : stop(call, name, kwargs)
    \/ \E call \in Calls, name \in Names, kwargs \in ActionKwargs : shutdown(call, name, kwargs)
    \/ _set_vm_status
    \/ _wait_for_vm_status_lookup
    \/ _wait_for_vm_status_poll
    \/ create_bootstrap
    \/ \E call \in Calls, name \in Names : show_instance(call, name)
    \/ show_instance_body
    \/ \E call \in Calls, name \in Names, kwargs \in ActionKwargs : reconfigure(call, name, kwargs)
    \/ reconfigure_body
    \/ \E call \in Calls, name \in Names, kwargs \in ActionKwargs : destroy(call, name, kwargs)
    \/ destroy_body
    \/ \E call \in Calls : avail_locations(call)
    \/ \E call \in Calls, kwargs \in ImagesKwargs : avail_images(call, kwargs)
    \/ \E call \in Calls : list_nodes(call)
    \/ \E call \in Calls : list_nodes_full(call)
    \/ EnvAddVM
    \/ EnvRemoveVM
    \/ EnvTaskEnds
    \/ NextCall

Spec == Init /\ [][Next]_vars

(***************************************************************************)
(* The task poller, _wait_for_task(upid, timeout, interval).  The driver   *)
(* under src/ does not define it; its unit tests call it.  It is modelled  *)
(* from the specification's section 4.2 and those tests.                   *)
(***************************************************************************)
\* "in": the text s contains the text sub.
Contains(s, sub) ==
    \E i \in 0..(Len(s) - Len(sub)) : SubSeq(s, i + 1, i + Len(sub)) = sub

Failed == <<"f", "a", "i", "l", "e", "d">>

\* The UPIDs of the task specification, and the payloads the remote holds.
TaskUpids == {Upid("n1", "start", "100"), Upid("n2", "clone", "200")}
TaskPayloads ==
    {[status |-> "running", exitstatus |-> NULL]}
        \cup {[status |-> "stopped", exitstatus |-> e] : e \in ExitStatuses}

\* The node that owns the task, parsed from the handle.
upid_node(upid) == upid[2]

task_status_path(upid) == <<"nodes", upid_node(upid), "tasks", upid, "status">>

InitTask ==
    /\ inventory = <<>>
    /\ nodes = <<>>
    /\ storage = <<>>
    /\ \E u \in TaskUpids, p \in TaskPayloads : tasks = (u :> p)
    /\ op = NoOp
    /\ pc = "idle"
    /\ log = <<>>
    /\ exc = NULL
    /\ ret = <<>>
    /\ vm = <<>>
    /\ now = 0
    /\ start_time = 0

\* The call: the clock is read.
_wait_for_task(upid, timeout) ==
    /\ pc = "idle"
    /\ op' = [fn |-> "_wait_for_task", upid |-> upid, timeout |-> timeout]
    /\ start_time' = now
    /\ Goto("task_poll", <<>>)
    /\ UNCHANGED <<inventory, nodes, storage, tasks, vm, now>>

\* A poller that gives up silently at the deadline.
task_timeout_returns == Return(PyNone, log)

\* At the deadline: ExecutionTimeout.
task_timeout == Raise("SaltCloudExecutionTimeout", log)

\* A poller that hands back the status alone.
task_result_status_only(response) == [status |-> response.status]

\* What the poller returns for the final payload: the payload itself.
task_result(response) == response

\* One turn of the polling loop: the deadline, a status query against the
\* owning node, the terminal test, the sleep.
_wait_for_task_poll ==
    /\ pc = "task_poll"
    /\ IF ~(now < start_time + op.timeout)
       THEN task_timeout /\ UNCHANGED now
       ELSE LET sent == Append(log, Request("GET", task_status_path(op.upid), PyNone))
            IN  \E o \in QueryOutcomes :
                  IF o # "ok"
                  THEN Raise(_query_exc(o), sent) /\ UNCHANGED now
                  ELSE LET response == tasks[op.upid]
                           answered == Append(sent, Response(response))
                       IN  IF response.status = "stopped"
                           THEN /\ IF Contains(response.exitstatus, Failed)
                                   THEN Raise("SaltCloudSystemExit", answered)
                                   ELSE Return(task_result(response), answered)
                                /\ UNCHANGED now
                           ELSE /\ now' = now + 1
                                /\ Goto("task_poll", answered)
    /\ UNCHANGED <<inventory, nodes, storage, tasks, op, vm, start_time>>

NextTask ==
    \/ \E u \in TaskUpids, t \in 0..MaxTimeout :
         u \in DOMAIN tasks /\ _wait_for_task(u, t)
    \/ _wait_for_task_poll
    \/ EnvTaskEndsAny

SpecTask == InitTask /\ [][NextTask]_vars

(***************************************************************************)
(* The two lookups on their own: _get_vm_by_name(name) and                 *)
(* _get_vm_by_id(vmid), lines 666-697, each with its query of the          *)
(* inventory.                                                              *)
(***************************************************************************)
\* The names and vmids asked for: listed ones, unknown ones, None.
LookupNames == Names \cup {"c"}
LookupIds == VmIds \cup {"456", NULL}

\* Lines 677-682.
call_get_vm_by_name(name) ==
    /\ pc = "idle"
    /\ op' = [fn |-> "_get_vm_by_name", name |-> name]
    /\ \E o \in QueryOutcomes :
         IF o # "ok"
         THEN Raise(_query_exc(o), <<ResourcesRequest>>)
         ELSE LET found == _get_vm_by_name(inventory, name)
              IN  IF found = <<>>
                  THEN Raise("SaltCloudNotFound", <<ResourcesRequest>>)
                  ELSE Return(found[1], <<ResourcesRequest>>)
    /\ UNCHANGED <<inventory, nodes, storage, tasks, vm, now, start_time>>

\* Lines 692-697.
call_get_vm_by_id(vmid) ==
    /\ pc = "idle"
    /\ op' = [fn |-> "_get_vm_by_id", vmid |-> vmid]
    /\ \E o \in QueryOutcomes :
         IF o # "ok"
         THEN Raise(_query_exc(o), <<ResourcesRequest>>)
         ELSE LET found == _get_vm_by_id(inventory, vmid)
              IN  IF found = <<>>
                  THEN Raise("SaltCloudNotFound", <<ResourcesRequest>>)
                  ELSE Return(found[1], <<ResourcesRequest>>)
    /\ UNCHANGED <<inventory, nodes, storage, tasks, vm, now, start_time>>

NextLookup ==
    \/ \E name \in LookupNames : call_get_vm_by_name(name)
    \/ \E vmid \in LookupIds : call_get_vm_by_id(vmid)
    \/ NextCall

SpecLookup == Init /\ [][NextLookup]_vars

(***************************************************************************)
(* _parse_ips(vm_config, vm_type) on its own, lines 759-784, over configs  *)
(* of a few keys and values.                                               *)
(***************************************************************************)
MaxConfig == 2      \* the most keys a config holds

\* "name=eth0,ip=10.0.0.1/8": a container's interface, private address
IpPrivate ==
    <<"n", "a", "m", "e", "=", "e", "t", "h", "0", ",", "i", "p", "=", "1", "0", ".", "0", ".", "0", ".", "1", "/", "8">>

\* "ip=8.8.8.8/24,gw=8.8.8.1": a public address with its gateway
IpPublic ==
    <<"i", "p", "=", "8", ".", "8", ".", "8", ".", "8", "/", "2", "4", ",", "g", "w", "=", "8", ".", "8", ".", "8", ".", "1">>

\* "ip=192.168.500.2": an address that is none
IpInvalid ==
    <<"i", "p", "=", "1", "9", "2", ".", "1", "6", "8", ".", "5", "0", "0", ".", "2">>

\* "gw=10.0.0.1": no ip entry
IpMissing ==
    <<"g", "w", "=", "1", "0", ".", "0", ".", "0", ".", "1">>

\* "virtio": not a key=value list
IpNoList ==
    <<"v", "i", "r", "t", "i", "o">>

\* "ip=172.32.0.1": a public address next to a private range, no netmask
IpPublicBare ==
    <<"i", "p", "=", "1", "7", "2", ".", "3", "2", ".", "0", ".", "1">>

IpValues == {IpPrivate, IpPublic, IpInvalid, IpMissing, IpNoList, IpPublicBare}

KeyNet0 == <<"n", "e", "t", "0">>
KeyNet1 == <<"n", "e", "t", "1">>
KeyIpconfig0 == <<"i", "p", "c", "o", "n", "f", "i", "g", "0">>
KeyIpconfig1 == <<"i", "p", "c", "o", "n", "f", "i", "g", "1">>
KeyOstype == <<"o", "s", "t", "y", "p", "e">>
ConfigKeys == {KeyNet0, KeyNet1, KeyIpconfig0, KeyIpconfig1, KeyOstype}

\* The configs: at most MaxConfig keys, in the order of the response, no
\* key twice.
VMConfigs ==
    {c \in UNION {[1..n -> ConfigKeys \X IpValues] : n \in 0..MaxConfig} :
        \A i, j \in DOMAIN c : i # j => c[i][1] # c[j][1]}

VmTypes == {"lxc", "qemu"}

\* The call: the two lists are returned, or what escapes the function is
\* raised.
call_parse_ips(vm_config, vm_type) ==
    /\ pc = "idle"
    /\ op' = [fn |-> "_parse_ips", vm_config |-> vm_config, vm_type |-> vm_type]
    /\ LET r == _parse_ips(vm_config, vm_type)
       IN  IF r.exc # NULL
           THEN Raise(r.exc, <<>>)
           ELSE Return([private_ips |-> r.private_ips, public_ips |-> r.public_ips], <<>>)
    /\ UNCHANGED <<inventory, nodes, storage, tasks, vm, now, start_time>>

InitIps ==
    /\ inventory = <<>>
    /\ nodes = <<>>
    /\ storage = <<>>
    /\ tasks = <<>>
    /\ op = NoOp
    /\ pc = "idle"
    /\ log = <<>>
    /\ exc = NULL
    /\ ret = <<>>
    /\ vm = <<>>
    /\ now = 0
    /\ start_time = 0

NextIps ==
    \/ \E vm_config \in VMConfigs, vm_type \in VmTypes : call_parse_ips(vm_config, vm_type)
    \/ NextCall

SpecIps == InitIps /\ [][NextIps]_vars

(***************************************************************************)
(* Reading the log.                                                        *)
(***************************************************************************)
IsPost(e) == IsRequest(e) /\ e.method = "POST"

\* The direct creation call: POST nodes/{node}/{technology}.
IsCreatePost(e) == IsPost(e) /\ Len(e.path) = 3 /\ e.path[1] = "nodes"

\* The clone call: POST nodes/{node}/{type}/{vmid}/clone.
IsClonePost(e) == IsPost(e) /\ Len(e.path) = 5 /\ e.path[5] = "clone"

\* A status query of the task behind upid.
IsTaskQuery(e, upid) == IsRequest(e) /\ e.method = "GET" /\ e.path = task_status_path(upid)

IsStoppedResponse(e) == IsResponse(e) /\ e.payload.status = "stopped"

\* The log holds a wait on the task behind upid, after index i, that saw
\* the task stopped.
WaitedOn(upid, i) ==
    \E j \in DOMAIN log :
        /\ j > i
        /\ IsTaskQuery(log[j], upid)
        /\ \E k \in DOMAIN log : k > j /\ IsStoppedResponse(log[k])

\* The number of status queries of the task behind upid.
TaskQueries(upid) == Cardinality({j \in DOMAIN log : IsTaskQuery(log[j], upid)})

TaskFailed(t) == t.status = "stopped" /\ Contains(t.exitstatus, Failed)

PolledStopped == \E i \in DOMAIN log : IsStoppedResponse(log[i])

\* The last request of the log was not answered with a payload.
LastQueryFailed ==
    /\ log # <<>>
    /\ IsRequest(log[Len(log)])
    /\ exc \in {"SaltCloudSystemExit", "AttributeError"}

(***************************************************************************)
(* C1.  A wait on a task whose polled status never reaches "stopped"       *)
(* within the timeout does not return normally: it ends with               *)
(* SaltCloudExecutionTimeout (unless a status query itself failed).        *)
(* Stated of SpecTask.                                                    *)
(***************************************************************************)
C1_TimeoutRaises ==
    (pc = "done" /\ ~PolledStopped) =>
        /\ ret = <<>>
        /\ exc # NULL
        /\ ~LastQueryFailed => exc = "SaltCloudExecutionTimeout"

\* A wait with the longest timeout that polled a running task until the
\* deadline and raised.
C1_Witness ==
    /\ pc = "done"
    /\ op.timeout = MaxTimeout
    /\ ~PolledStopped
    /\ Len(log) = 2 * MaxTimeout
    /\ IsResponse(log[Len(log)])
    /\ exc = "SaltCloudExecutionTimeout"

(***************************************************************************)
(* C2.  When a task a call started has stopped with an exit status that    *)
(* contains "failed", the call (create, clone, start, stop, shutdown)      *)
(* does not report success.                                                *)
(***************************************************************************)
C2_FailedTaskNoSuccess ==
    (/\ pc = "done"
     /\ op.fn \in {"create", "clone", "start", "stop", "shutdown"}
     /\ \E u \in DOMAIN tasks : TaskFailed(tasks[u]))
        => exc # NULL

(***************************************************************************)
(* C3.  When a poll of the task reports "stopped" with an exit status      *)
(* that does not contain "failed", the wait returns at that poll, and      *)
(* what it returns is that payload.  Stated of SpecTask.                  *)
(***************************************************************************)
C3_StoppedPayloadReturned ==
    \A i \in DOMAIN log :
        (IsStoppedResponse(log[i]) /\ ~Contains(log[i].payload.exitstatus, Failed)) =>
            /\ i = Len(log)
            /\ pc = "done"
            /\ exc = NULL
            /\ ret = <<log[i].payload>>

\* The task ran at the first poll, had stopped cleanly at the second.
C3_Witness ==
    /\ pc = "done"
    /\ Len(log) = 4
    /\ log[2].payload.status = "running"
    /\ ret = <<[status |-> "stopped", exitstatus |-> ExitOK]>>

(***************************************************************************)
(* C4.  As claimed: for every profile with a clone key, whatever its       *)
(* value, create never issues the direct creation POST.                    *)
(***************************************************************************)
C4_AnyCloneKeyNoCreatePost ==
    (op.fn = "create" /\ op.vm_.clone # PyNone) =>
        \A i \in DOMAIN log : ~IsCreatePost(log[i])

\* C4, amended: for every profile whose clone sub-configuration is not
\* empty, create takes the clone path (its first request is clone's lookup
\* of the source VM) and never issues the direct creation POST.
C4_NonEmptyCloneNoCreatePost ==
    (op.fn = "create" /\ IsDict(op.vm_.clone) /\ DOMAIN op.vm_.clone # {}) =>
        /\ pc # "create_post"
        /\ \A i \in DOMAIN log : ~IsCreatePost(log[i])
        /\ Len(log) >= 2 => log[2] = ResourcesRequest

\* A profile with both a clone and a create sub-configuration, cloned.
C4_Witness ==
    /\ op.fn = "create"
    /\ Truthy(op.vm_.clone)
    /\ IsDict(op.vm_.create)
    /\ \E i \in DOMAIN log : IsClonePost(log[i])

(***************************************************************************)
(* C5.  destroy, reconfigure, start, stop and shutdown called with         *)
(* call="function" raise SaltCloudSystemExit with no request made and no   *)
(* event fired.                                                            *)
(***************************************************************************)
C5_ActionsRejectFunctionCall ==
    (op.fn \in {"destroy", "reconfigure", "start", "stop", "shutdown"}
     /\ op.call = "function") =>
        /\ pc = "done"
        /\ exc = "SaltCloudSystemExit"
        /\ log = <<>>

C5_Witness ==
    /\ op.fn = "destroy"
    /\ op.call = "function"
    /\ pc = "done"
    /\ exc = "SaltCloudSystemExit"

(***************************************************************************)
(* C6.  clone, avail_locations, avail_images, list_nodes and               *)
(* list_nodes_full called with call="action", and show_instance called     *)
(* with call="function", raise SaltCloudSystemExit with no request made.   *)
(***************************************************************************)
C6_FunctionsRejectActionCall ==
    (\/ /\ op.fn \in {"clone", "avail_locations", "avail_images",
                      "list_nodes", "list_nodes_full"}
        /\ op.call = "action"
     \/ /\ op.fn = "show_instance"
        /\ op.call = "function") =>
        /\ pc = "done"
        /\ exc = "SaltCloudSystemExit"
        /\ log = <<>>

C6_Witness ==
    /\ op.fn = "list_nodes_full"
    /\ op.call = "action"
    /\ inventory # <<>>
    /\ pc = "done"
    /\ exc = "SaltCloudSystemExit"

(***************************************************************************)
(* C7.  create with a profile that has no technology (and is complete     *)
(* otherwise) fails with SaltCloudSystemExit and issues no creation,       *)
(* clone or start request.                                                 *)
(***************************************************************************)
C7_MissingTechnologyFails ==
    (op.fn = "create" /\ op.vm_.technology = NULL /\ IsDict(op.vm_.create)) =>
        /\ \A i \in DOMAIN log : ~IsPost(log[i])
        /\ pc = "done" => exc = "SaltCloudSystemExit"

(***************************************************************************)
(* C8.  clone called as a function without a vmid fails with               *)
(* SaltCloudSystemExit and never issues the clone POST.  (A request with   *)
(* no response at all is left aside: there _query raises AttributeError.)  *)
(***************************************************************************)
C8_MissingVmidFails ==
    (op.fn = "clone" /\ op.call = "function" /\ "vmid" \notin DOMAIN op.kwargs
     /\ exc # "AttributeError") =>
        /\ \A i \in DOMAIN log : ~IsClonePost(log[i])
        /\ pc = "done" => exc = "SaltCloudSystemExit"

(***************************************************************************)
(* C9.  clone, once it has returned, has issued its POST against the       *)
(* source VM's node and type and has waited on the task that POST          *)
(* returned until the task had stopped.                                    *)
(***************************************************************************)
C9_CloneWaitsForTask ==
    (op.fn = "clone" /\ pc = "done" /\ exc = NULL) =>
        \E i \in DOMAIN log :
            LET source == VMRecord(op.kwargs.vmid)
            IN  /\ IsClonePost(log[i])
                /\ log[i].path = <<"nodes", source.node, source.type, source.vmid, "clone">>
                /\ WaitedOn(Upid(source.node, "clone", source.vmid), i)

(***************************************************************************)
(* C10.  On the non-clone path, when create comes to start the VM it has   *)
(* issued the creation POST to nodes/{create.node}/{technology} with the   *)
(* create parameters and has waited on that POST's task exactly once.      *)
(***************************************************************************)
C10_CreateWaitsOnce ==
    (op.fn = "create" /\ op.vm_.technology # NULL /\ ~Truthy(op.vm_.clone)
     /\ pc = "set_status") =>
        /\ log[2] = Request("POST",
                            <<"nodes", op.vm_.create.node, op.vm_.technology>>,
                            op.vm_.create)
        /\ TaskQueries(Upid(op.vm_.create.node, "create", op.vm_.create.vmid)) = 1
        /\ WaitedOn(Upid(op.vm_.create.node, "create", op.vm_.create.vmid), 2)

(***************************************************************************)
(* C11.  After the creation step, a start attempt of create that fails     *)
(* because the inventory does not list the VM is retried: create fails     *)
(* with the VM not found only after 5 attempts to start it.                *)
(***************************************************************************)
\* The POST of a status transition: nodes/{node}/{type}/{vmid}/status/{status}.
IsStatusPost(e) == IsPost(e) /\ Len(e.path) = 6 /\ e.path[5] = "status"

\* The lookups of the inventory made after the creation (or clone) POST.
StartLookups ==
    {j \in DOMAIN log :
        /\ log[j] = ResourcesRequest
        /\ \E i \in 1..(j - 1) : IsCreatePost(log[i]) \/ IsClonePost(log[i])}

C11_StartRetried ==
    (/\ op.fn = "create"
     /\ op.vm_.technology # NULL
     /\ pc = "done"
     /\ exc = "SaltCloudNotFound"
     /\ StartLookups # {}
     /\ \A i \in DOMAIN log : ~IsStatusPost(log[i]))
        => Cardinality(StartLookups) = 5

(***************************************************************************)
(* C12.  destroy, called as an action, fires the "destroying" event        *)
(* first, then issues the DELETE for the VM its name resolves to, then     *)
(* fires the "destroyed" event; the "destroyed" event is the last thing it *)
(* does and is fired only when the lookup found the VM and the DELETE      *)
(* returned.                                                               *)
(***************************************************************************)
IsDelete(e) == IsRequest(e) /\ e.method = "DELETE"

\* The first record of the inventory with the name, as a set.
FirstNamed(name) ==
    {inventory[i] : i \in {j \in DOMAIN inventory :
        /\ inventory[j].name = name
        /\ \A k \in 1..(j - 1) : inventory[k].name # name}}

C12_DestroyEventsInOrder ==
    op.fn = "destroy" =>
        /\ \A i \in DOMAIN log :
             IsDelete(log[i]) =>
                /\ i = 3
                /\ IsEvent(log[1], "destroying") /\ log[1].name = op.name
                /\ log[2] = ResourcesRequest
        /\ \A i \in DOMAIN log :
             IsEvent(log[i], "destroyed") =>
                /\ i = 4 /\ Len(log) = 4
                /\ log[i].name = op.name
                /\ IsDelete(log[3])
                /\ \E v \in FirstNamed(op.name) :
                     log[3].path = <<"nodes", v.node, v.type, v.vmid>>
                /\ pc = "done" /\ exc = NULL
        /\ (pc = "done" /\ exc # NULL) =>
             \A i \in DOMAIN log : ~IsEvent(log[i], "destroyed")
        /\ (pc = "done" /\ exc = NULL) =>
             (Len(log) = 4 /\ IsEvent(log[4], "destroyed"))

\* The name is shared by two VMs; the first listed one is deleted.
C12_Witness ==
    /\ op.fn = "destroy"
    /\ pc = "done"
    /\ Len(inventory) = 2
    /\ inventory[1].name = inventory[2].name
    /\ Len(log) = 4
    /\ IsEvent(log[4], "destroyed")

(***************************************************************************)
(* C13.  avail_locations returns exactly the nodes of the listing whose    *)
(* status is "online", keyed by node name, each with its node record; a    *)
(* node with another status, or with none, is left out.                    *)
(***************************************************************************)
OnlineNodes == {i \in DOMAIN nodes : nodes[i].status = "online"}

C13_OnlyOnlineLocations ==
    (op.fn = "avail_locations" /\ pc = "done" /\ exc = NULL) =>
        /\ DOMAIN ret[1] = {nodes[i].node : i \in OnlineNodes}
        /\ \A i \in OnlineNodes : ret[1][nodes[i].node] = nodes[i]

\* A listing with an online node and a node without status.
C13_Witness ==
    /\ op.fn = "avail_locations"
    /\ pc = "done"
    /\ exc = NULL
    /\ Len(nodes) = 2
    /\ nodes[1].status = NULL
    /\ nodes[2].status = "online"
    /\ DOMAIN ret[1] = {nodes[2].node}

(***************************************************************************)
(* C14.  avail_images returns, for each location, only the content items   *)
(* whose content type is vztmpl, images or iso; an item of another type    *)
(* (a backup) is not in the result.                                        *)
(***************************************************************************)
C14_OnlyImageContent ==
    (op.fn = "avail_images" /\ pc = "done" /\ exc = NULL) =>
        \A l \in DOMAIN ret[1] :
            \A v \in DOMAIN ret[1][l] :
                ret[1][l][v].content \in {"vztmpl", "images", "iso"}

(***************************************************************************)
(* C15.  avail_images asks for the storage content once for every online   *)
(* node of the listing and for no other node, against the storage named    *)
(* in kwargs, or "local" when kwargs is missing or names none; the result  *)
(* has one key per online node.                                            *)
(***************************************************************************)
IsContentQuery(e) ==
    IsRequest(e) /\ e.method = "GET" /\ Len(e.path) = 5 /\ e.path[5] = "content"

StorageAsked ==
    IF op.kwargs # PyNone /\ "storage" \in DOMAIN op.kwargs
    THEN op.kwargs.storage ELSE "local"

C15_ContentQueriedPerLocation ==
    (op.fn = "avail_images" /\ pc = "done" /\ exc = NULL) =>
        /\ DOMAIN ret[1] = {nodes[i].node : i \in OnlineNodes}
        /\ \A i \in OnlineNodes :
             Cardinality({j \in DOMAIN log :
                 log[j] = Request("GET",
                     <<"nodes", nodes[i].node, "storage", StorageAsked, "content">>,
                     PyNone)}) = 1
        /\ Cardinality({j \in DOMAIN log : IsContentQuery(log[j])})
             = Cardinality(OnlineNodes)

\* Two nodes listed, one of them online, a storage named in kwargs.
C15_Witness ==
    /\ op.fn = "avail_images"
    /\ pc = "done"
    /\ exc = NULL
    /\ op.kwargs = [storage |-> "storage1"]
    /\ Len(nodes) = 2
    /\ Cardinality(OnlineNodes) = 1
    /\ Len(log) = 2

(***************************************************************************)
(* C16.  Lookup by name returns the first record, in listing order, whose  *)
(* name is the requested one, also when several records share the name.    *)
(* Stated of SpecLookup.                                                   *)
(***************************************************************************)
C16_FirstMatchByName ==
    (op.fn = "_get_vm_by_name" /\ pc = "done" /\ exc = NULL) =>
        \E i \in DOMAIN inventory :
            /\ ret[1] = inventory[i]
            /\ inventory[i].name = op.name
            /\ \A k \in 1..(i - 1) : inventory[k].name # op.name

\* Two records share the name; the first one is returned.
C16_Witness ==
    /\ op.fn = "_get_vm_by_name"
    /\ pc = "done"
    /\ Len(inventory) = 2
    /\ inventory[1].name = inventory[2].name
    /\ ret = <<inventory[1]>>

(***************************************************************************)
(* C17.  When the inventory query is answered, lookup by name and lookup   *)
(* by vmid raise SaltCloudNotFound exactly when no record of the           *)
(* inventory matches, and otherwise return a record of the inventory       *)
(* whose name (resp. vmid) is the requested one.  Stated of SpecLookup.    *)
(***************************************************************************)
LookupKey == IF op.fn = "_get_vm_by_name" THEN "name" ELSE "vmid"

LookupMatches == {i \in DOMAIN inventory : inventory[i][LookupKey] = op[LookupKey]}

C17_NotFoundIffNoMatch ==
    (/\ op.fn \in {"_get_vm_by_name", "_get_vm_by_id"}
     /\ pc = "done"
     /\ exc \notin {"SaltCloudSystemExit", "AttributeError"}) =>
        /\ exc = "SaltCloudNotFound" <=> LookupMatches = {}
        /\ LookupMatches # {} =>
             /\ exc = NULL
             /\ \E i \in LookupMatches : ret = <<inventory[i]>>

\* A vmid that a listing of two records does not hold is not found.
C17_Witness ==
    /\ op.fn = "_get_vm_by_id"
    /\ pc = "done"
    /\ Len(inventory) = 2
    /\ exc = "SaltCloudNotFound"
    /\ op.vmid = "456"

(***************************************************************************)
(* C18.  As claimed: list_nodes returns one entry per managed VM, each     *)
(* with exactly the fields id, image, size, state, private_ips and         *)
(* public_ips.                                                             *)
(***************************************************************************)
ListNodesFields == {"id", "image", "size", "state", "private_ips", "public_ips"}

C18_OneEntryPerVM ==
    (op.fn = "list_nodes" /\ pc = "done" /\ exc = NULL) =>
        /\ Cardinality(DOMAIN ret[1]) = Len(inventory)
        /\ \A name \in DOMAIN ret[1] : DOMAIN ret[1][name] = ListNodesFields

\* The last record of the inventory with the name, as a set.
LastNamed(name) ==
    {inventory[i] : i \in {j \in DOMAIN inventory :
        /\ inventory[j].name = name
        /\ \A k \in (j + 1)..Len(inventory) : inventory[k].name # name}}

\* C18, amended: list_nodes returns one entry per name of a managed VM; the
\* entry is that of the last VM listed under the name and has exactly the
\* six fields: id and state the VM's vmid and status, image and size empty,
\* the IP lists those extracted from that VM's live configuration.
C18_OneEntryPerName ==
    (op.fn = "list_nodes" /\ pc = "done" /\ exc = NULL) =>
        /\ DOMAIN ret[1] = {inventory[i].name : i \in DOMAIN inventory}
        /\ \A name \in DOMAIN ret[1] :
             \A v \in LastNamed(name) :
                LET entry == ret[1][name]
                    ips == _parse_ips(VMConfig(v.vmid), v.type)
                IN  /\ DOMAIN entry = ListNodesFields
                    /\ entry.id = v.vmid
                    /\ entry.state = v.status
                    /\ entry.image = ""
                    /\ entry.size = ""
                    /\ entry.private_ips = ips.private_ips
                    /\ entry.public_ips = ips.public_ips

\* Two VMs share the name "a"; the entry is the container's, listed last,
\* with the private address of its net0.
C18_Witness ==
    /\ op.fn = "list_nodes"
    /\ pc = "done"
    /\ exc = NULL
    /\ Len(inventory) = 2
    /\ inventory[1].name = inventory[2].name
    /\ ret[1]["a"].id = "100"
    /\ ret[1]["a"].private_ips = << <<"1", "0", ".", "0", ".", "0", ".", "1">> >>
    /\ ret[1]["a"].public_ips = <<>>

(***************************************************************************)
(* C19.  list_nodes_full returns, per managed VM, an entry with the        *)
(* list_nodes fields together with the live configuration under config     *)
(* and the raw inventory record under resource.                            *)
(***************************************************************************)
C19_FullEntryFields ==
    (op.fn = "list_nodes_full" /\ pc = "done" /\ exc = NULL) =>
        \A name \in DOMAIN ret[1] :
            /\ ListNodesFields \cup {"config", "resource"} \subseteq DOMAIN ret[1][name]
            /\ \E i \in DOMAIN inventory : ret[1][name].resource = inventory[i]

(***************************************************************************)
(* C20.  show_instance called as an action, its queries answered, returns  *)
(* the list_nodes_full record of a VM with the given name (the inventory   *)
(* record with its live configuration) when one exists, and raises         *)
(* SaltCloudNotFound when no managed VM has the name.                      *)
(***************************************************************************)
C20_ShowInstance ==
    (/\ op.fn = "show_instance"
     /\ op.call = "action"
     /\ pc = "done"
     /\ exc \notin {"SaltCloudSystemExit", "AttributeError"}) =>
        IF \E i \in DOMAIN inventory : inventory[i].name = op.name
        THEN /\ exc = NULL
             /\ \E v \in LastNamed(op.name) :
                  /\ DOMAIN ret[1] = DOMAIN v \cup {"config"}
                  /\ \A k \in DOMAIN v : ret[1][k] = v[k]
                  /\ ret[1].config = VMConfig(v.vmid)
        ELSE exc = "SaltCloudNotFound" /\ ret = <<>>

\* The VM named "b" is shown with its configuration.
C20_Witness ==
    /\ op.fn = "show_instance"
    /\ op.name = "b"
    /\ pc = "done"
    /\ exc = NULL
    /\ Len(inventory) = 2
    /\ ret[1].vmid = "300"
    /\ ret[1].config = VMConfig("300")

(***************************************************************************)
(* C21.  start, stop and shutdown, called as actions, look the VM up by    *)
(* name and issue one power-state POST, to                                 *)
(* nodes/{node}/{type}/{vmid}/status/{start|stop|shutdown} of a VM of that *)
(* name, with the caller's kwargs; no other POST is issued, and none       *)
(* twice.                                                                  *)
(***************************************************************************)
PostsOfLog == {i \in DOMAIN log : IsPost(log[i])}

C21_OnePowerPost ==
    (op.fn \in PowerFns /\ op.call = "action") =>
        /\ Cardinality(PostsOfLog) <= 1
        /\ \A i \in PostsOfLog :
             /\ i = 2
             /\ log[1] = ResourcesRequest
             /\ \E v \in AllVMs :
                  /\ v.name = op.name
                  /\ log[i] = Request("POST",
                         <<"nodes", v.node, v.type, v.vmid, "status", op.fn>>,
                         op.kwargs)
        /\ (pc = "done" /\ exc = NULL) => Cardinality(PostsOfLog) = 1

\* A shutdown with parameters that went through.
C21_Witness ==
    /\ op.fn = "shutdown"
    /\ op.call = "action"
    /\ op.kwargs = [force |-> "1"]
    /\ pc = "done"
    /\ exc = NULL
    /\ Cardinality(PostsOfLog) = 1

(***************************************************************************)
(* C22.  When _set_vm_status has returned (start, stop or shutdown goes on *)
(* to its next statement), the task its status POST returned has been      *)
(* waited on, once, until it had stopped.                                  *)
(***************************************************************************)
C22_SetStatusWaitsForTask ==
    (op.fn \in PowerFns /\ pc = "wait_lookup") =>
        LET upid == Upid(log[2].path[2], op.fn, log[2].path[4])
        IN  /\ TaskQueries(upid) = 1
            /\ WaitedOn(upid, 2)

(***************************************************************************)
(* C23.  When _parse_ips returns, its lists hold, in the order of the      *)
(* config, the addresses of the net* values for a container and of the     *)
(* ipconfig* values for a full VM, and of no other key: each valid ip      *)
(* entry in exactly one list, private if its address is in a private       *)
(* range and public otherwise; an invalid address is in neither.  Stated   *)
(* of SpecIps.                                                             *)
(***************************************************************************)
\* What each value of the model is known to hold.
IpExpectation(value) ==
    CASE value = IpPrivate -> [kind |-> "private", ip |-> <<"1", "0", ".", "0", ".", "0", ".", "1">>]
      [] value = IpPublic -> [kind |-> "public", ip |-> <<"8", ".", "8", ".", "8", ".", "8">>]
      [] value = IpPublicBare ->
           [kind |-> "public", ip |-> <<"1", "7", "2", ".", "3", "2", ".", "0", ".", "1">>]
      [] OTHER -> [kind |-> "none", ip |-> <<>>]

\* The keys read for a type.
KeyRead(key, vm_type) ==
    IF vm_type = "lxc" THEN key \in {KeyNet0, KeyNet1}
    ELSE key \in {KeyIpconfig0, KeyIpconfig1}

RECURSIVE ExpectedIps(_, _, _, _)
ExpectedIps(vm_config, vm_type, kind, i) ==
    IF i > Len(vm_config) THEN <<>>
    ELSE IF KeyRead(vm_config[i][1], vm_type) /\ IpExpectation(vm_config[i][2]).kind = kind
         THEN <<IpExpectation(vm_config[i][2]).ip>>
                  \o ExpectedIps(vm_config, vm_type, kind, i + 1)
         ELSE ExpectedIps(vm_config, vm_type, kind, i + 1)

C23_IpsClassified ==
    (op.fn = "_parse_ips" /\ pc = "done" /\ exc = NULL) =>
        /\ ret[1].private_ips = ExpectedIps(op.vm_config, op.vm_type, "private", 1)
        /\ ret[1].public_ips = ExpectedIps(op.vm_config, op.vm_type, "public", 1)

\* A full VM with an invalid address and a public one.
C23_Witness ==
    /\ op.fn = "_parse_ips"
    /\ pc = "done"
    /\ exc = NULL
    /\ op.vm_type = "qemu"
    /\ op.vm_config = << <<KeyIpconfig0, IpInvalid>>, <<KeyIpconfig1, IpPublic>> >>
    /\ ret[1].private_ips = <<>>
    /\ ret[1].public_ips = << <<"8", ".", "8", ".", "8", ".", "8">> >>

(***************************************************************************)
(* C24.  _parse_ips never raises: for every config, malformed entries at   *)
(* any position, the first one read included, are skipped and the valid    *)
(* ones are classified.                                                    *)
(***************************************************************************)
C24_ParseIpsNeverRaises ==
    (op.fn = "_parse_ips" /\ pc = "done") =>
        /\ exc = NULL
        /\ ret = <<[private_ips |-> ExpectedIps(op.vm_config, op.vm_type, "private", 1),
                    public_ips |-> ExpectedIps(op.vm_config, op.vm_type, "public", 1)]>>

(***************************************************************************)
(* C25.  A call that ends on a failed remote call (an HTTP error status,   *)
(* or no response at all) ends with SaltCloudSystemExit, and the failed    *)
(* call is not issued again.                                               *)
(***************************************************************************)
\* The call ended with an exception right after a request, and not with
\* one the driver raises itself on what the request returned.
EndedOnFailedQuery ==
    /\ pc = "done"
    /\ log # <<>>
    /\ IsRequest(log[Len(log)])
    /\ exc \notin {NULL, "SaltCloudNotFound", "UnboundLocalError"}

C25_FailedQueryIsSystemExit ==
    EndedOnFailedQuery =>
        /\ exc = "SaltCloudSystemExit"
        /\ Len(log) > 1 => log[Len(log) - 1] # log[Len(log)]

(***************************************************************************)
(* C26.  start returns its success result (state "running") only when the *)
(* last thing it did was a status query, after its POST, answered          *)
(* "running"; stop and shutdown likewise with "stopped".  When they end    *)
(* with SaltCloudExecutionTimeout no poll has reported the expected        *)
(* status and nothing is returned.                                         *)
(***************************************************************************)
ExpectedStatus == IF op.fn = "start" THEN "running" ELSE "stopped"

IsStatusQuery(e) ==
    IsRequest(e) /\ e.method = "GET" /\ Len(e.path) = 6 /\ e.path[6] = "current"

C26_SuccessOnlyOnObservedStatus ==
    (op.fn \in PowerFns /\ pc = "done") =>
        /\ exc = NULL =>
             /\ ret = <<[success |-> TRUE, state |-> ExpectedStatus, action |-> op.fn]>>
             /\ Len(log) >= 5
             /\ IsStatusPost(log[2])
             /\ IsStatusQuery(log[Len(log) - 1])
             /\ log[Len(log)] = Response([status |-> ExpectedStatus])
        /\ exc = "SaltCloudExecutionTimeout" =>
             /\ ret = <<>>
             /\ \A i \in DOMAIN log : log[i] # Response([status |-> ExpectedStatus])
             /\ \E i \in DOMAIN log : IsResponse(log[i])
        /\ exc \notin {NULL, "SaltCloudExecutionTimeout"} => ret = <<>>

\* A stop whose first poll still saw the VM running.
C26_Witness ==
    /\ op.fn = "stop"
    /\ pc = "done"
    /\ exc = NULL
    /\ Len(log) = 7
    /\ log[5] = Response([status |-> "running"])
    /\ log[7] = Response([status |-> "stopped"])

(***************************************************************************)
(* C27.  In create the steps run in the order "creating" event, creation   *)
(* or clone POST, start, bootstrap, show_instance, "created" event.  The   *)
(* bootstrap collaborator is called only right after start's poll saw the  *)
(* VM running; the "created" event is the last step, fired only after      *)
(* bootstrap and show_instance's queries; when a step raises, nothing      *)
(* follows it and no "created" event is fired.                             *)
(***************************************************************************)
IsBootstrap(e) == e.kind = "bootstrap"

C27_CreateStepsInOrder ==
    op.fn = "create" =>
        /\ Len(log) >= 1
        /\ IsEvent(log[1], "creating")
        /\ \A i \in DOMAIN log : IsEvent(log[i], "creating") => i = 1
        /\ \A i \in DOMAIN log :
             IsStatusPost(log[i]) =>
                /\ log[i].path[6] = "start"
                /\ \E j \in 2..(i - 1) : IsCreatePost(log[j]) \/ IsClonePost(log[j])
        /\ \A i \in DOMAIN log :
             IsBootstrap(log[i]) =>
                /\ log[i - 1] = Response([status |-> "running"])
                /\ \E j \in 2..(i - 1) : IsStatusPost(log[j])
                /\ \A j \in DOMAIN log : IsBootstrap(log[j]) => j = i
        /\ \A i \in DOMAIN log :
             IsEvent(log[i], "created") =>
                /\ i = Len(log)
                /\ pc = "done" /\ exc = NULL
                /\ \E b \in 2..(i - 2) :
                     /\ IsBootstrap(log[b])
                     /\ log[b + 1] = ResourcesRequest
                     /\ \A k \in (b + 1)..(i - 1) : IsRequest(log[k])
        /\ pc = "done" =>
             (exc = NULL <=> IsEvent(log[Len(log)], "created"))

\* A creation, not a clone, that went all the way.
C27_Witness ==
    /\ op.fn = "create"
    /\ pc = "done"
    /\ exc = NULL
    /\ IsCreatePost(log[2])
    /\ IsEvent(log[Len(log)], "created")

(***************************************************************************)
(* C28.  show_instance(name) describes the VM (the vmid) that the lookup   *)
(* by name resolves, and so the one start, stop, shutdown, reconfigure     *)
(* and destroy act on, also when several VMs share the name.               *)
(***************************************************************************)
C28_ShowInstanceIsLookedUpVM ==
    (op.fn = "show_instance" /\ pc = "done" /\ exc = NULL) =>
        \E v \in FirstNamed(op.name) : ret[1].vmid = v.vmid

(***************************************************************************)
(* C29.  Within one start, stop or shutdown, the VM whose status is polled *)
(* is the VM the power-state POST went to, also when the inventory changes *)
(* between the two lookups by name.                                        *)
(***************************************************************************)
C29_PolledVMIsPostedVM ==
    (op.fn \in PowerFns /\ pc = "wait_poll") =>
        log[2].path = <<"nodes", vm[1].node, vm[1].type, vm[1].vmid, "status", op.fn>>

(***************************************************************************)
(* The power actions alone, with the scheduling of a sequential program:   *)
(* a call that is under way takes its next step.                           *)
(***************************************************************************)
NextWait ==
    \/ \E call \in Calls, name \in Names, kwargs \in ActionKwargs : start(call, name, kwargs)
    \/ \E call \in Calls, name \in Names, kwargs \in ActionKwargs : stop(call, name, kwargs)
    \/ \E call \in Calls, name \in Names, kwargs \in ActionKwargs : shutdown(call, name, kwargs)
    \/ _set_vm_status
    \/ _wait_for_vm_status_lookup
    \/ _wait_for_vm_status_poll
    \/ EnvAddVM
    \/ EnvRemoveVM
    \/ EnvTaskEnds
    \/ NextCall

SpecWait ==
    /\ Init
    /\ [][NextWait]_vars
    /\ WF_vars(_wait_for_vm_status_lookup)
    /\ WF_vars(_wait_for_vm_status_poll)

(***************************************************************************)
(* C30.  Stated of SpecWait.  The wait for a VM status ends: a wait that   *)
(* polls is eventually over, whatever statuses the remote reports.  A poll *)
(* that reports the expected status is the last request of the wait and    *)
(* the wait returns; a wait that ends with SaltCloudExecutionTimeout does  *)
(* so when the timeout has elapsed, after at most one poll per interval.   *)
(***************************************************************************)
StatusQueries == {i \in DOMAIN log : IsStatusQuery(log[i])}

C30_Safety ==
    op.fn \in PowerFns =>
        /\ \A i \in DOMAIN log :
             log[i] = Response([status |-> expected_status(op.fn)]) =>
                /\ i = Len(log)
                /\ pc = "done"
                /\ exc = NULL
                /\ ret = <<power_result(op.fn)>>
        /\ exc = "SaltCloudExecutionTimeout" =>
             /\ pc = "done"
             /\ now = start_time + Timeout
             /\ Cardinality(StatusQueries) = Timeout
        /\ Cardinality(StatusQueries) <= Timeout

C30_WaitTerminates == []C30_Safety /\ ((pc = "wait_poll") ~> (pc = "done"))

\* The remote never reported the expected status and the wait timed out.
C30_Witness ==
    /\ op.fn \in PowerFns
    /\ pc = "done"
    /\ exc = "SaltCloudExecutionTimeout"
    /\ Cardinality(StatusQueries) = Timeout

====
